---- MODULE Spec2Model ----
(***************************************************************************)
(* Transport Record (src/app.py): a Streamlit script over one Excel        *)
(* workbook.  The workbook's sheets are the persisted state, load_sheets   *)
(* is cached process-wide with a 5 second ttl, and every session runs the  *)
(* script top to bottom on each interaction.                               *)
(*                                                                         *)
(* Optional values (pandas NaN / NaT / None, a missing Settings row) are   *)
(* the empty tuple <<>>; a present value x is <<x>>; a date is <<y, m, d>>.*)
(***************************************************************************)
EXTENDS Integers, Sequences, FiniteSets, TLC

VARIABLES
    pVehicles,  \* sheet "Vehicles": VehicleID -> [Odometer, LastServiceOdo, Status]
    pUsage,     \* sheet "UsageLog": sequence of trip rows
    pSettings,  \* sheet "Settings": Key -> optional raw Value
    cache,      \* st.cache_data entry of load_sheets: <<>> or <<snapshot>>
    pc,         \* per session: where its script run stands
    view,       \* per session: vehicles and usage of its submitting run
    form,       \* per session: the usage_form inputs of its submitting run
    local,      \* per session: new_row of its last accepted submission, or <<>>
    rendered,   \* the page the last rendering run showed: <<>> or <<page>>
    monthly_in, \* argument of the last monthly_vehicle_distance call
    monthly_out \* its result

vars == <<pVehicles, pUsage, pSettings, cache, pc, view, form, local,
          rendered, monthly_in, monthly_out>>

----------------------------------------------------------------------------
(* Bounds and input sets *)

MaxTrips == 1       \* trips submitted through the usage_form
MaxAggRows == 2     \* rows of the trip sets given to the aggregator alone

Sessions == {"s1", "s2"}
VehicleIDs == {"V1"}

NaN == <<>>
Some(x) == <<x>>
IsNa(o) == o = <<>>
Val(o) == o[1]

DefaultDailyLimit == 1000
DefaultMonthlyJump == 4000
DefaultServiceInterval == 10000

SettingKeys == {"NEGATIVE_MILEAGE_BLOCK", "DAILY_TRIP_LIMIT",
                "MONTHLY_HIGH_JUMP", "SERVICE_INTERVAL_KM"}

\* auth["username"] of each logged-in session
Username(s) == IF s = "s1" THEN "admin1" ELSE "admin2"

----------------------------------------------------------------------------
(* get_setting: the coercion of a Settings cell *)

\* str.upper() on the raw values the model stores
Upper(val) ==
    CASE val = "true" -> "TRUE"
      [] val = "True" -> "TRUE"
      [] val = "false" -> "FALSE"
      [] val = "False" -> "FALSE"
      [] OTHER -> val

\* float(val): <<n>> when val parses as a number, <<>> when float() raises
ParseFloat(val) ==
    CASE val = "0" -> Some(0)
      [] val = "1" -> Some(1)
      [] val = "500" -> Some(500)
      [] val = "1000" -> Some(1000)
      [] val = "1001" -> Some(1001)
      [] val = "2001" -> Some(2001)
      [] val = "4000" -> Some(4000)
      [] val = "5000" -> Some(5000)
      [] val = "10000" -> Some(10000)
      [] OTHER -> NaN

BoolV(b) == [t |-> "bool", b |-> b, n |-> 0, s |-> ""]
NumV(n) == [t |-> "num", b |-> FALSE, n |-> n, s |-> ""]
StrV(s) == [t |-> "str", b |-> FALSE, n |-> 0, s |-> s]

\* get_setting(key, default) against the Settings sheet of one snapshot
get_setting(settings, key, default) ==
    IF IsNa(settings[key]) THEN default
    ELSE LET val == Val(settings[key]) IN
         IF Upper(val) \in {"TRUE", "FALSE"} THEN BoolV(Upper(val) = "TRUE")
         ELSE IF ~IsNa(ParseFloat(val)) THEN NumV(Val(ParseFloat(val)))
         ELSE StrV(val)

\* bool(x) of a resolved setting
ToBool(x) ==
    CASE x.t = "bool" -> x.b
      [] x.t = "num" -> x.n # 0
      [] OTHER -> x.s # ""

\* float(x) of a resolved setting: <<>> when float() raises ValueError
ToFloat(x) ==
    CASE x.t = "bool" -> Some(IF x.b THEN 1 ELSE 0)
      [] x.t = "num" -> Some(x.n)
      [] OTHER -> NaN

----------------------------------------------------------------------------
(* The computation layer *)

\* mutant: the operands of the subtraction swapped
compute_distance_swapped(start, end) ==
    IF IsNa(start) \/ IsNa(end) THEN NaN ELSE Some(Val(start) - Val(end))

compute_distance(start, end) ==
    IF IsNa(start) \/ IsNa(end) THEN NaN ELSE Some(Val(end) - Val(start))

\* float(limit) is only evaluated when the distance is present
DailyLimit(settings) ==
    ToFloat(get_setting(settings, "DAILY_TRIP_LIMIT", NumV(DefaultDailyLimit)))

\* mutant: the limit itself already flags
flag_daily_anomaly_inclusive(settings, distance) ==
    IF IsNa(distance) THEN ""
    ELSE IF Val(distance) >= Val(DailyLimit(settings)) THEN "DAILY_HIGH" ELSE ""

flag_daily_anomaly(settings, distance) ==
    IF IsNa(distance) THEN ""
    ELSE IF Val(distance) > Val(DailyLimit(settings)) THEN "DAILY_HIGH" ELSE ""

\* flag_daily_anomaly raises on this distance (a threshold float() rejects)
DailyRaises(settings, distance) ==
    ~IsNa(distance) /\ IsNa(DailyLimit(settings))

\* two-digit month of a period's string form
MonthDigits(m) ==
    CASE m = 1 -> "01" [] m = 2 -> "02" [] m = 3 -> "03" [] m = 4 -> "04"
      [] m = 5 -> "05" [] m = 6 -> "06" [] m = 7 -> "07" [] m = 8 -> "08"
      [] m = 9 -> "09" [] m = 10 -> "10" [] m = 11 -> "11" [] OTHER -> "12"

YearDigits(y) ==
    CASE y = 2024 -> "2024" [] y = 2025 -> "2025" [] OTHER -> "2026"

\* df["Date"].dt.to_period("M").astype(str): NaT becomes the string "NaT"
MonthStr(date) ==
    IF date = <<>> THEN "NaT"
    ELSE YearDigits(date[1]) \o "-" \o MonthDigits(date[2])

RECURSIVE SumMinCount1(_)
\* Series.sum(min_count=1) of a sequence of optional numbers
SumMinCount1(ds) ==
    IF ds = <<>> THEN NaN
    ELSE LET rest == SumMinCount1(Tail(ds)) IN
         IF IsNa(Head(ds)) THEN rest
         ELSE IF IsNa(rest) THEN Head(ds)
         ELSE Some(Val(Head(ds)) + Val(rest))

RECURSIVE GroupDistances(_, _, _)
\* the Distance column of the rows of one (VehicleID, Month) group
GroupDistances(usage_df, vid, month) ==
    IF usage_df = <<>> THEN <<>>
    ELSE LET r == Head(usage_df)
             rest == GroupDistances(Tail(usage_df), vid, month) IN
         IF r.VehicleID = vid /\ MonthStr(r.Date) = month
         THEN <<r.Distance>> \o rest ELSE rest

GroupKeys(usage_df) ==
    {<<usage_df[i].VehicleID, MonthStr(usage_df[i].Date)>> :
        i \in 1..Len(usage_df)}

monthly_vehicle_distance(usage_df) ==
    IF usage_df = <<>> THEN {}
    ELSE {[VehicleID |-> k[1], Month |-> k[2],
           MonthlyDistance |-> SumMinCount1(GroupDistances(usage_df, k[1], k[2]))] :
            k \in GroupKeys(usage_df)}

MonthlyJump(settings) ==
    ToFloat(get_setting(settings, "MONTHLY_HIGH_JUMP", NumV(DefaultMonthlyJump)))

flag_monthly_anomalies(settings, monthly_df) ==
    {[VehicleID |-> g.VehicleID, Month |-> g.Month,
      MonthlyDistance |-> g.MonthlyDistance,
      MonthlyFlag |-> IF ~IsNa(g.MonthlyDistance)
                         /\ Val(g.MonthlyDistance) > Val(MonthlyJump(settings))
                      THEN "MONTHLY_HIGH" ELSE ""] : g \in monthly_df}

ServiceInterval(settings) ==
    ToFloat(get_setting(settings, "SERVICE_INTERVAL_KM",
                        NumV(DefaultServiceInterval)))

\* mutant: service due only past the interval
service_alerts_strict(settings, vehicles) ==
    {v \in DOMAIN vehicles :
        vehicles[v].Odometer - vehicles[v].LastServiceOdo
            > Val(ServiceInterval(settings))}

service_alerts(settings, vehicles) ==
    {v \in DOMAIN vehicles :
        vehicles[v].Odometer - vehicles[v].LastServiceOdo
            >= Val(ServiceInterval(settings))}

----------------------------------------------------------------------------
(* load_sheets and the module-level data of one script run *)

\* the workbook as pd.read_excel returns it
Workbook == [vehicles |-> pVehicles, usage |-> pUsage, settings |-> pSettings]

\* load_sheets() under st.cache_data: the live entry, else the workbook;
\* every call leaves its result as the cache entry
load_sheets == IF cache # <<>> THEN cache[1] ELSE Workbook

\* lines 115-117: Distance and AnomalyFlag recomputed on the loaded rows
Derived(settings, r) ==
    LET d == compute_distance(r.OdoStart, r.OdoEnd) IN
    [r EXCEPT !.Distance = d, !.AnomalyFlag = flag_daily_anomaly(settings, d)]

DerivedUsage(settings, usage) ==
    [i \in 1..Len(usage) |-> Derived(settings, usage[i])]

\* lines 116-119 raise: a threshold that float() rejects
RunRaises(data) ==
    \/ \E i \in 1..Len(data.usage) :
          DailyRaises(data.settings,
                      compute_distance(data.usage[i].OdoStart, data.usage[i].OdoEnd))
    \/ IsNa(MonthlyJump(data.settings))

\* lines 114-119: usage with its derived columns, and monthly
ModuleData(data) ==
    LET usage == DerivedUsage(data.settings, data.usage) IN
    [vehicles |-> data.vehicles,
     usage |-> usage,
     monthly |-> flag_monthly_anomalies(data.settings,
                                        monthly_vehicle_distance(usage))]

Sections == {"Dashboard", "Usage", "Admin"}

\* the section raises: service_alerts on an interval that float() rejects
SectionRaises(section, data) ==
    section = "Dashboard" /\ IsNa(ServiceInterval(data.settings))

\* what the section shows of the data (lines 126-164, 173-176, 205-251)
Page(section, data) ==
    LET m == ModuleData(data) IN
    [section |-> section,
     vehicles |-> IF section = "Dashboard" THEN data.vehicles ELSE <<>>,
     usage |-> IF section = "Usage" THEN m.usage ELSE <<>>,
     monthly |-> IF section = "Dashboard" THEN m.monthly ELSE {},
     alerts |-> IF section = "Dashboard"
                THEN service_alerts(data.settings, data.vehicles) ELSE {}]

\* the vehicles and usage of a submitting run (lines 114-117)
RunData(data) ==
    [vehicles |-> data.vehicles,
     usage |-> DerivedUsage(data.settings, data.usage)]

NoView == [vehicles |-> <<>>, usage |-> <<>>]

NoForm == [date |-> <<>>, vehicle_id |-> "", odo_start |-> 0, odo_end |-> 0]
NoLocal == <<>>

\* a run that can be followed by a new interaction of its session
Resting == {"idle", "page", "rejected", "failed", "error", "rerun"}
\* a run that rendered the usage_form
FormShown == {"idle", "rejected", "failed"}

----------------------------------------------------------------------------
(* Script runs *)

\* a run without a form submission: lines 114-119, then the section
Render(s, section) ==
    /\ pc[s] \in Resting
    /\ LET data == load_sheets IN
       /\ cache' = <<data>>
       /\ IF RunRaises(data) \/ SectionRaises(section, data)
          THEN /\ pc' = [pc EXCEPT ![s] = "error"]
               /\ rendered' = <<>>
          ELSE /\ pc' = [pc EXCEPT ![s] = IF section = "Admin" THEN "idle"
                                          ELSE "page"]
               /\ rendered' = <<Page(section, data)>>
    /\ form' = [form EXCEPT ![s] = NoForm]
    /\ local' = [local EXCEPT ![s] = NoLocal]
    /\ UNCHANGED <<pVehicles, pUsage, pSettings, view, monthly_in, monthly_out>>

\* the rows of the ledger that came in through the usage_form
Submitted(usage) ==
    Cardinality({i \in 1..Len(usage) :
                    \E s \in Sessions : usage[i].ApprovedBy = Username(s)})

\* "Save Usage" pressed: the rerun reaches the usage_form with the inputs
\* (lines 114-119, 237-251)
Submit(s, date, vehicle_id, odo_start, odo_end) ==
    /\ pc[s] \in FormShown
    /\ Submitted(pUsage) < MaxTrips
    /\ vehicle_id \in VehicleIDs
    /\ LET data == load_sheets IN
       /\ cache' = <<data>>
       /\ IF RunRaises(data)
          THEN /\ pc' = [pc EXCEPT ![s] = "error"]
               /\ UNCHANGED <<view, form>>
          ELSE /\ pc' = [pc EXCEPT ![s] = "loaded"]
               /\ view' = [view EXCEPT ![s] = RunData(data)]
               /\ form' = [form EXCEPT ![s] =
                              [date |-> date, vehicle_id |-> vehicle_id,
                               odo_start |-> odo_start, odo_end |-> odo_end]]
    /\ local' = [local EXCEPT ![s] = NoLocal]
    /\ UNCHANGED <<pVehicles, pUsage, pSettings, rendered, monthly_in, monthly_out>>

\* line 254
negative_block(settings) ==
    ToBool(get_setting(settings, "NEGATIVE_MILEAGE_BLOCK", BoolV(TRUE)))

\* line 255
dist(s) == compute_distance(Some(form[s].odo_start), Some(form[s].odo_end))

\* mutant: only an absent distance is rejected
Rejects_absent_only(block, d) == block /\ IsNa(d)

\* line 256
Rejects(block, d) == block /\ (IsNa(d) \/ Val(d) < 0)

MaxLogID(usage) ==
    CHOOSE m \in {usage[i].LogID : i \in 1..Len(usage)} :
        \A i \in 1..Len(usage) : usage[i].LogID <= m

\* line 259
new_id(usage) == IF usage # <<>> THEN MaxLogID(usage) + 1 ELSE 1

\* lines 260-263
new_row(s, settings) ==
    [LogID |-> new_id(view[s].usage), Date |-> form[s].date,
     VehicleID |-> form[s].vehicle_id,
     OdoStart |-> Some(form[s].odo_start), OdoEnd |-> Some(form[s].odo_end),
     Distance |-> dist(s),
     AnomalyFlag |-> flag_daily_anomaly(settings, dist(s)),
     ApprovedBy |-> Username(s)]

\* lines 253-257: the submission is rejected
Reject(s) ==
    /\ pc[s] = "loaded"
    /\ LET data == load_sheets IN
       /\ cache' = <<data>>
       /\ Rejects(negative_block(data.settings), dist(s))
    /\ pc' = [pc EXCEPT ![s] = "rejected"]
    /\ view' = [view EXCEPT ![s] = NoView]
    /\ form' = [form EXCEPT ![s] = NoForm]
    /\ UNCHANGED <<pVehicles, pUsage, pSettings, local,
                   rendered, monthly_in, monthly_out>>

\* lines 253-265: accepted, and save_sheet(u, "UsageLog") returns
SaveUsage(s) ==
    /\ pc[s] = "loaded"
    /\ LET data == load_sheets IN
       /\ cache' = <<data>>
       /\ ~Rejects(negative_block(data.settings), dist(s))
       /\ ~DailyRaises(data.settings, dist(s))
       /\ local' = [local EXCEPT ![s] = <<new_row(s, data.settings)>>]
       /\ pUsage' = Append(view[s].usage, new_row(s, data.settings))
    /\ pc' = [pc EXCEPT ![s] = "saved_usage"]
    /\ UNCHANGED <<pVehicles, pSettings, view, form, rendered, monthly_in, monthly_out>>

\* lines 253-265: accepted, and flag_daily_anomaly or save_sheet raises
SaveUsageFails(s) ==
    /\ pc[s] = "loaded"
    /\ LET data == load_sheets IN
       /\ cache' = <<data>>
       /\ ~Rejects(negative_block(data.settings), dist(s))
    /\ pc' = [pc EXCEPT ![s] = "failed"]
    /\ view' = [view EXCEPT ![s] = NoView]
    /\ form' = [form EXCEPT ![s] = NoForm]
    /\ UNCHANGED <<pVehicles, pUsage, pSettings, local,
                   rendered, monthly_in, monthly_out>>

\* lines 267-269
UpdatedVehicles(s) ==
    [v \in DOMAIN view[s].vehicles |->
        IF v = form[s].vehicle_id
        THEN [view[s].vehicles[v] EXCEPT !.Odometer = form[s].odo_end,
                                         !.Status = "Available"]
        ELSE view[s].vehicles[v]]

\* lines 267-270: save_sheet(v, "Vehicles") returns
SaveVehicles(s) ==
    /\ pc[s] = "saved_usage"
    /\ pVehicles' = UpdatedVehicles(s)
    /\ pc' = [pc EXCEPT ![s] = "saved_vehicles"]
    /\ UNCHANGED <<pUsage, pSettings, cache, view, form, local,
                   rendered, monthly_in, monthly_out>>

\* line 270: save_sheet(v, "Vehicles") raises after the ledger was written
SaveVehiclesFails(s) ==
    /\ pc[s] = "saved_usage"
    /\ pc' = [pc EXCEPT ![s] = "failed"]
    /\ view' = [view EXCEPT ![s] = NoView]
    /\ form' = [form EXCEPT ![s] = NoForm]
    /\ UNCHANGED <<pVehicles, pUsage, pSettings, cache, local,
                   rendered, monthly_in, monthly_out>>

\* line 273: st.cache_data.clear()
ClearedCache == <<>>

\* lines 272-274: success message, cache clear, st.rerun()
ClearAndRerun(s) ==
    /\ pc[s] = "saved_vehicles"
    /\ cache' = ClearedCache
    /\ pc' = [pc EXCEPT ![s] = "rerun"]
    /\ view' = [view EXCEPT ![s] = NoView]
    /\ form' = [form EXCEPT ![s] = NoForm]
    /\ UNCHANGED <<pVehicles, pUsage, pSettings, local,
                   rendered, monthly_in, monthly_out>>

\* the ttl=5 of st.cache_data runs out
CacheExpire ==
    /\ cache # <<>>
    /\ cache' = <<>>
    /\ UNCHANGED <<pVehicles, pUsage, pSettings, pc, view, form, local,
                   rendered, monthly_in, monthly_out>>

\* the Settings sheet is edited in the workbook (the app never writes it)
SettingsChange(key, value) ==
    /\ pSettings[key] # value
    /\ pSettings' = [pSettings EXCEPT ![key] = value]
    /\ UNCHANGED <<pVehicles, pUsage, cache, pc, view, form, local,
                   rendered, monthly_in, monthly_out>>

----------------------------------------------------------------------------
(* The application: two admin sessions on one workbook *)

NoSettings == [k \in SettingKeys |-> <<>>]

InitVehicles ==
    [v \in VehicleIDs |->
        IF v = "V1"
        THEN [Odometer |-> 100, LastServiceOdo |-> 0, Status |-> "In Use"]
        ELSE [Odometer |-> 0, LastServiceOdo |-> 0, Status |-> "Available"]]

\* a ledger row as load_sheets coerces it
Row(id, date, vid, start, end, by) ==
    [LogID |-> id, Date |-> date, VehicleID |-> vid,
     OdoStart |-> start, OdoEnd |-> end,
     Distance |-> compute_distance(start, end), AnomalyFlag |-> "",
     ApprovedBy |-> by]

\* the ledger the workbook starts with: one imported trip, identifier 7
InitUsage == <<Row(7, <<2025, 1, 10>>, "V1", Some(0), Some(100), "admin0")>>

FormDates == {<<2025, 1, 15>>}
OdoInputs == {<<100, 90>>, <<0, 90>>, <<100, 150>>}
BlockValues == {<<>>, <<"false">>}

InitSessions ==
    /\ cache = <<>>
    /\ pc = [s \in Sessions |-> "rerun"]
    /\ view = [s \in Sessions |-> NoView]
    /\ rendered = <<>>
    /\ form = [s \in Sessions |-> NoForm]
    /\ local = [s \in Sessions |-> NoLocal]
    /\ monthly_in = <<>>
    /\ monthly_out = <<>>

Init ==
    /\ pVehicles = InitVehicles
    /\ pUsage = InitUsage
    /\ pSettings \in {[NoSettings EXCEPT !["NEGATIVE_MILEAGE_BLOCK"] = b] :
                        b \in BlockValues}
    /\ InitSessions

Next ==
    \/ \E s \in Sessions : Render(s, "Admin")
    \/ \E s \in Sessions, date \in FormDates, v \in VehicleIDs,
          o \in OdoInputs : Submit(s, date, v, o[1], o[2])
    \/ \E s \in Sessions : Reject(s)
    \/ \E s \in Sessions : SaveUsage(s)
    \/ \E s \in Sessions : SaveUsageFails(s)
    \/ \E s \in Sessions : SaveVehicles(s)
    \/ \E s \in Sessions : SaveVehiclesFails(s)
    \/ \E s \in Sessions : ClearAndRerun(s)
    \/ CacheExpire

Spec == Init /\ [][Next]_vars

----------------------------------------------------------------------------
(* Thresholds: the Settings sheet is edited while sessions browse *)

\* a ledger whose distances and monthly sums sit on the default thresholds
ThresholdLedger ==
    <<Row(1, <<2025, 1, 10>>, "V1", Some(0), Some(1000), "admin0"),
      Row(2, <<2025, 1, 20>>, "V1", Some(1000), Some(2001), "admin0"),
      Row(3, <<2025, 2, 3>>, "V1", Some(2001), Some(6001), "admin0"),
      Row(4, <<>>, "V1", NaN, Some(6001), "admin0")>>

DailyValues == {<<>>, <<"1000">>, <<"1001">>, <<"abc">>}
ThresholdOdoInputs == {<<6001, 7002>>}
MonthlyValues == {<<>>, <<"2001">>, <<"true">>}

InitSettings ==
    /\ pVehicles = [InitVehicles EXCEPT !["V1"].Odometer = 6001]
    /\ pUsage = ThresholdLedger
    /\ pSettings = NoSettings
    /\ InitSessions

NextSettings ==
    \/ \E s \in Sessions : Render(s, "Usage")
    \/ \E s \in Sessions : Render(s, "Dashboard")
    \/ CacheExpire
    \/ \E value \in DailyValues : SettingsChange("DAILY_TRIP_LIMIT", value)
    \/ \E value \in MonthlyValues : SettingsChange("MONTHLY_HIGH_JUMP", value)
    \/ Render("s1", "Admin")
    \/ \E date \in FormDates, v \in VehicleIDs, o \in ThresholdOdoInputs :
          Submit("s1", date, v, o[1], o[2])
    \/ SaveUsage("s1")
    \/ SaveUsageFails("s1")
    \/ SaveVehicles("s1")
    \/ ClearAndRerun("s1")

SpecSettings == InitSettings /\ [][NextSettings]_vars

----------------------------------------------------------------------------
(* Service alerts: one session drives a vehicle up to its service interval *)

ServiceOdoInputs == {<<5000, 9999>>, <<5000, 10000>>, <<10000, 15000>>,
                     <<10000, 5000>>}
ServiceOdometers == {5000, 9999, 10000}
IntervalValues == {<<>>, <<"5000">>}

InitService ==
    /\ pVehicles \in {[v \in VehicleIDs |->
                          [Odometer |-> o, LastServiceOdo |-> 0,
                           Status |-> "In Use"]] : o \in ServiceOdometers}
    /\ pUsage = <<>>
    /\ pSettings \in {[NoSettings EXCEPT !["SERVICE_INTERVAL_KM"] = i] :
                        i \in IntervalValues}
    /\ InitSessions

NextService ==
    \/ Render("s1", "Dashboard")
    \/ Render("s1", "Admin")
    \/ \E date \in FormDates, v \in VehicleIDs, o \in ServiceOdoInputs :
          Submit("s1", date, v, o[1], o[2])
    \/ Reject("s1")
    \/ SaveUsage("s1")
    \/ SaveVehicles("s1")
    \/ ClearAndRerun("s1")
    \/ CacheExpire

SpecService == InitService /\ [][NextService]_vars

----------------------------------------------------------------------------
(* The monthly aggregator on its own: trip sets built row by row *)

AggDates == {<<>>, <<2025, 1, 15>>, <<2025, 1, 20>>, <<2025, 2, 1>>}
AggDistances == {NaN, Some(10), Some(20)}

AggRow(date, d) ==
    [LogID |-> 1, Date |-> date, VehicleID |-> "V1", OdoStart |-> NaN,
     OdoEnd |-> NaN, Distance |-> d, AnomalyFlag |-> "", ApprovedBy |-> "admin0"]

AddTrip(date, d) ==
    /\ Len(monthly_in) < MaxAggRows
    /\ monthly_in' = Append(monthly_in, AggRow(date, d))
    /\ monthly_out' = <<>>
    /\ UNCHANGED <<pVehicles, pUsage, pSettings, cache, pc, view, form, local,
                   rendered>>

Aggregate ==
    /\ monthly_out = <<>>
    /\ monthly_out' = <<monthly_vehicle_distance(monthly_in)>>
    /\ UNCHANGED <<pVehicles, pUsage, pSettings, cache, pc, view, form, local,
                   rendered, monthly_in>>

InitAgg ==
    /\ pVehicles = InitVehicles
    /\ pUsage = <<>>
    /\ pSettings = NoSettings
    /\ InitSessions

NextAgg ==
    \/ \E date \in AggDates, d \in AggDistances : AddTrip(date, d)
    \/ Aggregate

SpecAgg == InitAgg /\ [][NextAgg]_vars

----------------------------------------------------------------------------
(* Claims *)

Range(f) == {f[i] : i \in 1..Len(f)}

\* session s takes the step that ends the validation of its submission
Validates(s) == pc[s] = "loaded" /\ pc'[s] # "loaded"
\* session s takes the step in which save_sheet(u, "UsageLog") returns
SavesUsage(s) == pc[s] = "loaded" /\ pc'[s] = "saved_usage"
\* session s takes the step in which save_sheet(v, "Vehicles") returns
SavesVehicles(s) == pc[s] = "saved_usage" /\ pc'[s] = "saved_vehicles"

\* C1: a submission validated while NEGATIVE_MILEAGE_BLOCK resolves to true
\* and whose end is below its start is rejected, and neither the run that
\* loads it nor its validation changes the persisted ledger (so no identifier
\* is consumed) or any vehicle's odometer and status.
C1_RejectedSubmissionChangesNothing ==
    [][\A s \in Sessions :
          /\ (pc[s] \in FormShown /\ pc'[s] = "loaded")
                => (pUsage' = pUsage /\ pVehicles' = pVehicles)
          /\ (/\ Validates(s)
              /\ negative_block(load_sheets.settings)
              /\ form[s].odo_end < form[s].odo_start)
                => (/\ pc'[s] = "rejected"
                    /\ pUsage' = pUsage
                    /\ pVehicles' = pVehicles)]_vars

\* C1 witness: a submission of (100, 90) was rejected under the default block
\* and the vehicle still reads 100.
C1_Witness ==
    \E s \in Sessions :
        /\ pc[s] = "rejected"
        /\ negative_block(pSettings)
        /\ pVehicles["V1"].Odometer = 100

\* C2: while NEGATIVE_MILEAGE_BLOCK is true no step lowers the persisted
\* odometer of any vehicle.
C2_OdometerNeverDecreases ==
    [][negative_block(pSettings)
          => \A v \in VehicleIDs :
                pVehicles'[v].Odometer >= pVehicles[v].Odometer]_vars

\* C3: every accepted commit extends the persisted ledger as it stands at the
\* commit by its one new row, so that concurrent sessions' trips all stay in
\* the ledger.
C3_CommitKeepsCommittedTrips ==
    [][\A s \in Sessions :
          SavesUsage(s) => pUsage' = Append(pUsage, local'[s][1])]_vars

\* C4: a submission that failed is failed as a whole: its trip is in the
\* persisted ledger only if the vehicle carries its end value and Available.
C4_FailedCommitIsWhole ==
    \A s \in Sessions :
        (pc[s] = "failed" /\ local[s] # <<>> /\ local[s][1] \in Range(pUsage))
            => /\ pVehicles[local[s][1].VehicleID].Odometer
                     = Val(local[s][1].OdoEnd)
               /\ pVehicles[local[s][1].VehicleID].Status = "Available"

\* C5: a committed trip's identifier is one more than the largest identifier
\* in the persisted ledger at the commit (1 on an empty ledger), and the
\* ledger's identifiers stay pairwise distinct.
C5_IdentifierFollowsLedgerMaximum ==
    [][\A s \in Sessions :
          SavesUsage(s)
            => /\ local'[s][1].LogID = new_id(pUsage)
               /\ \A i, j \in 1..Len(pUsage') :
                     pUsage'[i].LogID = pUsage'[j].LogID => i = j]_vars

C7_RerunShowsCommittedTrip ==
    \A s \in Sessions :
        (pc[s] = "rerun" /\ local[s] # <<>>)
            => local[s][1] \in Range(ModuleData(load_sheets).usage)


\* a session's non-submitting run shows a page (the Settings sheet untouched)
RendersPage ==
    /\ pSettings' = pSettings
    /\ cache' # <<>>
    /\ rendered' # <<>>
    /\ \E s \in Sessions :
          /\ pc[s] \in Resting
          /\ pc'[s] = "page"
          /\ \A t \in Sessions \ {s} : pc'[t] = pc[t]

\* the flags of a page are those of the thresholds in settings: strictly
\* greater flags, equality and absent values do not
PageFlagsMatch(page, settings) ==
    /\ \A i \in 1..Len(page.usage) :
          page.usage[i].AnomalyFlag = "DAILY_HIGH"
            <=> /\ ~IsNa(page.usage[i].Distance)
                /\ ~IsNa(DailyLimit(settings))
                /\ Val(page.usage[i].Distance) > Val(DailyLimit(settings))
    /\ \A g \in page.monthly :
          g.MonthlyFlag = "MONTHLY_HIGH"
            <=> /\ ~IsNa(g.MonthlyDistance)
                /\ ~IsNa(MonthlyJump(settings))
                /\ Val(g.MonthlyDistance) > Val(MonthlyJump(settings))

\* the daily flag of a new trip row is that of the limit in settings
RowFlagMatches(row, settings) ==
    row.AnomalyFlag = "DAILY_HIGH"
        <=> /\ ~IsNa(row.Distance)
            /\ ~IsNa(DailyLimit(settings))
            /\ Val(row.Distance) > Val(DailyLimit(settings))

\* C8 as stated: the daily and monthly flags of every page, and the daily
\* flag of every committed trip, are those of the thresholds stored in the
\* Settings sheet at that moment.
C8_FlagsUseStoredThresholds ==
    [][/\ RendersPage => PageFlagsMatch(rendered'[1], pSettings)
       /\ \A s \in Sessions :
             SavesUsage(s) => RowFlagMatches(local'[s][1], pSettings)]_vars

\* C8 amended: the thresholds are those of the snapshot load_sheets returns
\* at that moment: the stored ones when no cache entry is live, the ones of
\* the live entry otherwise.
C8_FlagsUseLoadedThresholds ==
    [][/\ RendersPage
          => /\ cache = <<>> => PageFlagsMatch(rendered'[1], pSettings)
             /\ cache # <<>> => PageFlagsMatch(rendered'[1], cache[1].settings)
       /\ \A s \in Sessions :
             SavesUsage(s)
               => /\ cache = <<>> => RowFlagMatches(local'[s][1], pSettings)
                  /\ cache # <<>>
                        => RowFlagMatches(local'[s][1], cache[1].settings)]_vars

\* C8 witness: a usage page whose flags are those of a live cache entry and
\* not those of the thresholds now stored.
C8_Witness ==
    /\ rendered # <<>>
    /\ rendered[1].section = "Usage"
    /\ cache # <<>>
    /\ cache[1].settings # pSettings
    /\ PageFlagsMatch(rendered[1], cache[1].settings)
    /\ ~PageFlagsMatch(rendered[1], pSettings)

\* session s renders the dashboard
RendersDashboard(s) ==
    /\ pc[s] \in Resting /\ pc'[s] = "page"
    /\ cache' # <<>>
    /\ rendered' # <<>>
    /\ rendered'[1].section = "Dashboard"

\* vehicles whose distance since the last service reaches the interval
DueForService(vehicles, interval) ==
    {v \in VehicleIDs :
        vehicles[v].Odometer - vehicles[v].LastServiceOdo >= interval}

\* C9: each dashboard shows exactly the vehicles whose odometer minus
\* last-service odometer reaches SERVICE_INTERVAL_KM (10000 by default), from
\* the vehicles that run loaded; right after the session's own commit those
\* are the persisted vehicles; and a vehicle shown stays shown on the next
\* dashboard when its odometer has not dropped and its last service is the
\* same.
C9_ServiceAlertsExact ==
    [][\A s \in Sessions :
          RendersDashboard(s)
            => /\ rendered'[1].alerts
                    = DueForService(load_sheets.vehicles,
                                    Val(ServiceInterval(load_sheets.settings)))
               /\ IsNa(pSettings["SERVICE_INTERVAL_KM"])
                    => Val(ServiceInterval(load_sheets.settings)) = 10000
               /\ pc[s] = "rerun"
                    => rendered'[1].alerts
                          = DueForService(pVehicles,
                                          Val(ServiceInterval(pSettings)))
               /\ (rendered # <<>> /\ rendered[1].section = "Dashboard")
                    => \A v \in rendered[1].alerts :
                          (/\ rendered'[1].vehicles[v].Odometer
                                >= rendered[1].vehicles[v].Odometer
                           /\ rendered'[1].vehicles[v].LastServiceOdo
                                = rendered[1].vehicles[v].LastServiceOdo)
                            => v \in rendered'[1].alerts]_vars

\* C9 witness: under the default interval a trip from 5000 to exactly 10000
\* was committed and the dashboard shows V1 as due.
C9_Witness ==
    /\ rendered # <<>>
    /\ rendered[1].section = "Dashboard"
    /\ IsNa(pSettings["SERVICE_INTERVAL_KM"])
    /\ pUsage # <<>>
    /\ pUsage[Len(pUsage)].OdoStart = Some(5000)
    /\ pUsage[Len(pUsage)].OdoEnd = Some(10000)
    /\ rendered[1].vehicles["V1"].Odometer = 10000
    /\ rendered[1].vehicles["V1"].LastServiceOdo = 0
    /\ "V1" \in rendered[1].alerts

RECURSIVE SumPresent(_, _)
\* the sum of the present distances of the rows at the indices in idx
SumPresent(rows, idx) ==
    IF idx = {} THEN 0
    ELSE LET i == CHOOSE i \in idx : TRUE IN
         (IF IsNa(rows[i].Distance) THEN 0 ELSE Val(rows[i].Distance))
            + SumPresent(rows, idx \ {i})

\* the rows of one vehicle in one calendar month (dated rows only)
MonthGroup(rows, vid, ym) ==
    {i \in 1..Len(rows) :
        /\ rows[i].Date # <<>>
        /\ rows[i].VehicleID = vid
        /\ <<rows[i].Date[1], rows[i].Date[2]>> = ym}

\* C10: the aggregate has exactly one row per (vehicle, calendar month) with
\* at least one dated trip, none for undated trips, nothing for no trips;
\* each row's sum is that of the present distances of its group, and absent
\* only when every distance of the group is absent.
C10_OneRowPerDatedGroup ==
    monthly_out # <<>> =>
        LET rows == monthly_in
            out == monthly_out[1]
            dated == {i \in 1..Len(rows) : rows[i].Date # <<>>}
            groups == {<<rows[i].VehicleID, <<rows[i].Date[1], rows[i].Date[2]>>>> :
                          i \in dated}
        IN /\ Cardinality(out) = Cardinality(groups)
           /\ \A k \in groups :
                 \E g \in out :
                    /\ g.VehicleID = k[1]
                    /\ g.Month = MonthStr(<<k[2][1], k[2][2], 1>>)
                    /\ LET idx == MonthGroup(rows, k[1], k[2]) IN
                       IF \A i \in idx : IsNa(rows[i].Distance)
                       THEN IsNa(g.MonthlyDistance)
                       ELSE g.MonthlyDistance = Some(SumPresent(rows, idx))

====
